---- MODULE Spec2Model ----
(***************************************************************************)
(* choppy: command-line client that submits workflows to a Cromwell        *)
(* engine, monitors them and notifies their owner.                         *)
(*                                                                         *)
(* The model follows src/choppy/choppy.py: main() dispatches one           *)
(* subcommand handler (call_run, call_monitor, ...) on the parsed args.    *)
(* The Monitor, Validator, Cromwell and kv_list_to_dict collaborators are  *)
(* imported by choppy.py but their code is not part of the sources; they   *)
(* are modelled from the specification (sections 4.1, 4.2, 4.4, 6).         *)
(***************************************************************************)
EXTENDS Integers, Sequences, FiniteSets, TLC

VARIABLES
    cmd,          \* the subcommand main() dispatches to (args.func)
    args,         \* the argparse namespace handed to the handler
    pc,           \* position of the single thread of control
    validation,   \* what Validator.validate_json() returned, once it ran
    labels_dict,  \* call_run's local labels_dict
    submits,      \* engine side: the submission requests received, in order
    result,       \* call_run's local result (the id of the submit response)
    engine,       \* engine side: the status answers the polled workflow will give
    enginePolls,  \* engine side: number of status queries answered so far
    retry,        \* call_run's local retry
    monitorCalls, \* history: one record per call_monitor invocation
    monLog,       \* history: how the Monitor of each finished invocation ended
    mon,          \* the Monitor object of the running call_monitor
    firstTerminal,\* history: per listed workflow, first list tick that showed it terminal
    sent,         \* notification channel: the notifications handed over so far
    returned,     \* the value the handler returned to main()
    dumped,       \* whether main() printed the JSON dump of the result
    outcome,      \* how the process ended
    events,       \* history: the steps the handler took and the engine calls it made, in order
    snapshots,    \* history: the list answers the Monitor received, in order
    reply,        \* what the engine answered to the handler's request
    files,        \* file system: the calls whose script file can be read
    printed,      \* what the handler printed or logged to the console, in order
    disk,         \* file system: the directory the handler works in
    disk0,        \* history: that directory when the process started
    local,        \* the handler's local variables (upload, batch, testapp, Scaffold)
    args0,        \* history: the namespace parse_args() returned
    error         \* the unhandled error that ended it, if any

vars == <<cmd, args, pc, validation, labels_dict, submits, result, engine,
          enginePolls, retry, monitorCalls, monLog, mon, firstTerminal, sent,
          returned, dumped, outcome, events, snapshots, reply, files, printed,
          disk, disk0, local, args0, error>>

\* The directory, the locals and the two histories, which most steps leave alone
ioVars == <<disk, disk0, local, args0>>

----------------------------------------------------------------------------
(* Bounds of the model *)

\* longest --label list given on the command line
MaxLabels == 2
\* most status answers lacking the expected field before the job is registered
MaxNotReady == 5
\* most non-terminal status answers of a registered workflow
MaxRunning == 2
\* most list ticks of multi-workflow monitoring that are followed
MaxTicks == 2
\* most failed jobs in the answer of explain
MaxFailedJobs == 2
\* most calls in the answer of the logs endpoint
MaxCalls == 2
\* Members of the dependencies archive
MaxMembers == 2
\* Rows of the sample sheet
MaxSamples == 2

----------------------------------------------------------------------------
(* Values *)

\* Python's None, for the string-valued arguments and results
NoneId == "<None>"

\* Python truthiness of a string-or-None value (line 212: if args.workflow_id)
Truthy(x) == x # NoneId /\ x # ""

\* spec section 3, WorkflowStatus
TerminalStates == {"Succeeded", "Failed", "Aborted"}
RunStates == {"Submitted", "Running", "Aborting", "On Hold"}

\* A status answer of the engine is a status, an answer lacking the expected
\* field, or no answer at all (connectivity failure).
Missing == "<missing field>"
Down == "<transport failure>"

\* The id the engine gives a new submission, and an id known to the caller before.
NewId == "wf-new"
OldId == "wf-old"

User == "alice"

\* The Cromwell server chosen with --server, and the port its client uses
Server == "cromwell-1"
CromwellPort == "8000"

\* The string "None": the default of the optional workflow_id positional of
\* query, label and email (lines 602, 665, 676)
NoneString == "None"

\* The calls of a workflow, as the keys of res["calls"] (line 361)
CallKeys == 1..MaxCalls

\* setattr on the argparse namespace
SetAttr(a, k, v) == [f \in DOMAIN a \cup {k} |-> IF f = k THEN v ELSE a[f]]

\* The handler has not asked the engine anything yet.
NoReply == [kind |-> "none"]

\* No directory is touched, and the handler keeps no locals of interest.
NoDisk == [kind |-> "none"]
NoLocal == [kind |-> "none"]

\* One line (or section) on the console
Line(what, id) == [what |-> what, id |-> id]

\* A "key:value" command-line token, held as the fields between its ':'
\* separators (what item.split(':') yields): <<"a","x">> is "a:x", <<"bad">> is
\* "bad", <<"a","x","y">> is "a:x:y".
Tokens == { <<"a", "x">>, <<"a", "y">>, <<"username", "x">>, <<"bad">>, <<"a", "x", "y">> }

RECURSIVE SeqsUpTo(_, _)
SeqsUpTo(S, n) ==
    IF n = 0 THEN { <<>> }
    ELSE LET shorter == SeqsUpTo(S, n - 1)
         IN  shorter \cup { Append(s, x) : s \in { t \in shorter : Len(t) = n - 1 }, x \in S }

\* An argparse action='append' argument: None when the option was never given.
Absent == [some |-> FALSE, list |-> <<>>]
Given(l) == [some |-> TRUE, list |-> l]

LabelInputs == {Absent} \cup { Given(l) : l \in SeqsUpTo(Tokens, MaxLabels) }
OptionInputs == {Absent, Given(<< <<"a", "x">> >>), Given(<< <<"bad">> >>)}

----------------------------------------------------------------------------
(* Label codec: utils.kv_list_to_dict, spec section 4.2 *)

EmptyDict == [k \in {} |-> ""]

DictSet(d, k, v) == [x \in (DOMAIN d) \cup {k} |-> IF x = k THEN v ELSE d[x]]

\* A token is well formed when it has exactly one ':' separator.
WellFormed(tok) == Len(tok) = 2

Malformed(kv) == kv.some /\ \E i \in 1..Len(kv.list) : ~WellFormed(kv.list[i])

RECURSIVE ParseTokens(_)
ParseTokens(l) ==
    IF l = <<>> THEN EmptyDict
    ELSE LET n == Len(l)
             d == ParseTokens(SubSeq(l, 1, n - 1))
         IN  DictSet(d, l[n][1], l[n][2])

\* None for an absent or empty list, else the mapping of the tokens, a later
\* token overwriting an earlier one with the same key.
kv_list_to_dict(kv) ==
    IF ~kv.some \/ kv.list = <<>>
    THEN [some |-> FALSE, dict |-> EmptyDict]
    ELSE [some |-> TRUE, dict |-> ParseTokens(kv.list)]

----------------------------------------------------------------------------
(* Collaborators of the handlers *)

\* Validator.validate_json(): an ordered sequence of error strings, empty when valid
ValidatorResults == { <<>>, <<"e1">>, <<"e1", "e2">> }

\* The future of the workflow whose status is polled: notReady answers lacking
\* the status field while the engine has not registered the job (the latency the
\* sleep of line 119 is there for), then running non-terminal answers, then the
\* final answer for ever: a terminal status, or the engine out of reach.
EngineBehaviours ==
    [notReady : 0..MaxNotReady, running : 0..MaxRunning, final : TerminalStates \cup {Down}]

NoEngine == [notReady |-> 0, running |-> 0, final |-> "<unpolled>"]

\* The answer to the p-th status query
Answer(e, p) ==
    IF p <= e.notReady THEN Missing
    ELSE IF p <= e.notReady + e.running THEN "Running"
    ELSE e.final

\* The workflows a list query can report, and the statuses it reports them in
Workflows == {"A", "B"}
ListStatuses == {"Running", "Succeeded", "Failed"}

ListAnswers ==
    { [kind |-> "ok", statuses |-> s] : s \in [Workflows -> ListStatuses] }
    \cup { [kind |-> k, statuses |-> [w \in Workflows |-> "Running"]] : k \in {Missing, Down} }

\* The error a malformed answer or an unreachable engine raises in the Monitor
ErrorOf(kind) == IF kind = Missing THEN "KeyError" ELSE "TransportError"

\* Variant: only Succeeded ends the monitoring.
StopsOnSucceededOnly(status) == status = "Succeeded"

\* The stop condition of the Monitor: the status is terminal (spec section 3)
StopsOn(status) == status \in TerminalStates

\* Variant: every terminal workflow of the snapshot is notified again.
NewlyTerminalForgetful(terminal, notified) == terminal

\* The workflows to notify in a list tick: terminal and not handled in a prior tick
NewlyTerminal(terminal, notified) == terminal \ notified

NoMonitor ==
    [mode |-> "none", owner |-> "", target |-> NoneId, no_notify |-> FALSE,
     verbose |-> FALSE, interval |-> NoneId,
     polls |-> 0, state |-> "idle", exc |-> "none", notified |-> {}]

\* Cromwell.restart_workflow: nothing, a response without an id, or the handle
\* of the new workflow, distinct from the restarted one (spec section 4.1)
RestartReplies ==
    { [kind |-> "restart", some |-> FALSE, has_id |-> FALSE, id |-> NoneId],
      [kind |-> "restart", some |-> TRUE, has_id |-> FALSE, id |-> NoneId],
      [kind |-> "restart", some |-> TRUE, has_id |-> TRUE, id |-> NewId] }

\* Cromwell.explain_workflow: (none, {}, {}) for an unknown id, else the status
\* with optional additional parameters and failed-job logs (spec section 4.3)
ExplainReplies ==
    { [kind |-> "explain", found |-> FALSE, id |-> NoneId, additional |-> FALSE,
       stdout |-> FALSE, failed_jobs |-> 0] }
    \cup { [kind |-> "explain", found |-> TRUE, id |-> OldId, additional |-> a,
            stdout |-> o, failed_jobs |-> n] :
               a \in BOOLEAN, o \in BOOLEAN, n \in 0..MaxFailedJobs }

\* Cromwell.get('logs', id): the calls of the workflow, in the order the
\* handler iterates over them
LogReplies ==
    { [kind |-> "logs", calls |-> c] :
        c \in { q \in SeqsUpTo(CallKeys, MaxCalls) :
                  \A i, j \in 1..Len(q) : q[i] = q[j] => i = j } }

\* Cromwell.stop_workflow: the JSON answer to an abort request
AbortReplies == { [kind |-> "abort", status |-> st] : st \in {"Aborted", "not found"} }

\* Cromwell.label_workflow: the HTTP status of the response
StatusCodes == {200, 400}

----------------------------------------------------------------------------
(* Decisions of choppy.py *)

\* call_run, line 122: retry = 4
RetryBudget == 4

\* Variant: a single validation error is let through.
ValidationFailsOnMany(res) == Len(res) > 1

\* call_validate, line 173: exit when the validator reported anything
ValidationFails(res) == Len(res) # 0

\* Variant: a username label of the user is kept.
BuildLabelsKeepsUserValue(label, username) ==
    LET parsed == kv_list_to_dict(label)
        base == IF parsed.some THEN parsed.dict ELSE EmptyDict
    IN  IF "username" \in DOMAIN base THEN base ELSE DictSet(base, "username", username)

\* call_run, lines 99-100: the user's labels, then username on top of them
BuildLabels(label, username) ==
    LET parsed == kv_list_to_dict(label)
        base == IF parsed.some THEN parsed.dict ELSE EmptyDict
    IN  DictSet(base, "username", username)

\* Variant: a workflow id comes before the daemon flag.
MonitorModeIdFirst(a) ==
    IF Truthy(a.workflow_id) THEN "single"
    ELSE IF a.daemon THEN "daemon"
    ELSE "user"

\* call_monitor, lines 205-215: which monitoring is started
MonitorMode(a) ==
    IF a.daemon THEN "daemon"
    ELSE IF Truthy(a.workflow_id) THEN "single"
    ELSE "user"

\* call_monitor, lines 206 and 210: the owner the Monitor is built for
MonitorOwner(a) == IF a.daemon THEN "*" ELSE a.username

\* Variant: the Monitor is built without the flag.
MonitorNoNotifyDropped(a) == FALSE

\* call_monitor, lines 206 and 210: the no_notify the Monitor is built with
MonitorNoNotify(a) == a.no_notify

\* call_monitor, lines 206-207 and 210-211: verbose and interval of the Monitor
MonitorVerbose(a) == a.verbose
MonitorInterval(a) == a.interval

\* run and monitor, lines 585 and 630: --interval, default=30
DefaultInterval == 30

\* Variant: email monitors with notification disabled.
EmailSettingsSilent == [verbose |-> FALSE, no_notify |-> TRUE, interval |-> 0]

\* call_email, lines 383-385: the three attributes it sets
EmailSettings == [verbose |-> FALSE, no_notify |-> FALSE, interval |-> 0]

\* Variant: except KeyError
CallMonitorCatchesKeyErrorOnly(exc) == exc = "KeyError"

\* Variant: a KeyError is let through to the caller.
CallMonitorCatchesAllButKeyError(exc) == exc = "TransportError"

\* call_monitor, line 216: except Exception
CallMonitorCatches(exc) == exc \in {"KeyError", "TransportError"}

\* Variant: the monitoring is started whether or not it was asked for.
AfterLinksAlwaysMonitors(a) == "sleep"

\* call_run, line 116: if args.monitor
AfterLinks(a) == IF a.monitor THEN "sleep" ELSE "return"

\* call_run, line 127: except KeyError
RunRetries(exc) == exc = "KeyError"

\* Variant: the dump is printed whatever the flag says.
MainDumpsAlways(a) == TRUE

\* main, lines 748-752: the dump is printed if args.monitor is false; a
\* namespace without the attribute raises AttributeError, which is passed over
MainDumps(a) == "monitor" \in DOMAIN a /\ ~a.monitor

\* Python truthiness of an action='append' argument (lines 141, 143, 322)
ListGiven(l) == l.some /\ l.list # <<>>

\* call_restart, line 230: if result is not None and "id" in result
RestartSucceeded(r) == r.some /\ r.has_id

\* Variant: the id the user asked to restart is reported.
RestartReportsAskedId(a, r) == a.workflow_id

\* call_restart, line 231: str(result['id'])
RestartReportedId(a, r) == r.id

\* call_restart, lines 230-237: the message printed
RestartReport(a, r) ==
    IF RestartSucceeded(r) THEN Line("restarted", RestartReportedId(a, r))
    ELSE Line("not_restarted", NoneId)

\* call_explain, lines 274-283: two sections per failed job
RECURSIVE FailedJobSections(_)
FailedJobSections(n) ==
    IF n = 0 THEN <<>>
    ELSE <<"failed_stdout", "failed_stderr">> \o FailedJobSections(n - 1)

\* call_explain, lines 267-288: the report of a workflow that was found
FoundSections(r) ==
    <<"status">>
    \o (IF r.additional THEN <<"additional">> ELSE <<>>)
    \o (IF r.stdout THEN FailedJobSections(r.failed_jobs) ELSE <<>>)
    \o <<"links">>

\* Variant: an unknown workflow gets the report of a known one.
ExplainSectionsAlwaysReport(r) == FoundSections(r)

\* call_explain, lines 266-291: if result is not None ... else 'Workflow not found.'
ExplainSections(r) == IF r.found THEN FoundSections(r) ELSE <<"not_found">>

\* call_log, lines 362-367: the script files are opened in turn, outside any try
AllScriptsRead(calls, fs) == \A i \in 1..Len(calls) : calls[i] \in fs

\* call_label, line 343: if response.status_code == 200
StatusOK == 200

\* Variant: a rejected labelling ends the process with exit code 1.
LabelEndsExitingOnRejection(code) ==
    IF code = StatusOK THEN [pc |-> "dump", outcome |-> "running"]
    ELSE [pc |-> "exit", outcome |-> "exit1"]

\* call_label, lines 343-346: both branches only report, and the handler returns
LabelEnds(code) == [pc |-> "dump", outcome |-> "running"]

\* call_query, line 141 (and binds tighter than or)
QueryListMode(a) ==
    a.workflow_id = NoneId \/ (a.workflow_id = NoneString /\ ~ListGiven(a.label))

\* Variant: the label is not looked at after line 141.
QueryModeIgnoringLabel(a) == IF QueryListMode(a) THEN "list" ELSE "flags"

\* call_query, lines 141-143: the list, the label query, or the flagged queries
QueryMode(a) ==
    IF QueryListMode(a) THEN "list"
    ELSE IF ListGiven(a.label) THEN "label"
    ELSE "flags"

\* call_query, lines 147-160: the queries made, in this order
QueryResponses(a) ==
    (IF a.status THEN <<"status">> ELSE <<>>)
    \o (IF a.metadata THEN <<"metadata">> ELSE <<>>)
    \o (IF a.logs THEN <<"logs">> ELSE <<>>)

\* call_list, line 298: username = "*" if args.all else args.username
ListOwner(a) == IF a.all THEN "*" ELSE a.username

\* The order in which the engine lists the workflows
WorkflowOrder == <<"A", "B">>

\* call_list, line 321: result = q["results"]
ListResults(answer) ==
    [i \in 1..Len(WorkflowOrder) |->
        [id |-> WorkflowOrder[i], status |-> answer.statuses[WorkflowOrder[i]]]]

\* Variant: the filter is not applied.
ListFilterKeepsAll(results, f) == results

\* call_list, lines 322-323: if args.filter, only the listed statuses are kept
ListFilter(results, f) ==
    IF ListGiven(f)
    THEN SelectSeq(results, LAMBDA r : \E i \in 1..Len(f.list) : f.list[i] = r.status)
    ELSE results

\* get_cromwell_links, lines 248-249: the two URLs, as the parts they are
\* formatted from: http://{server}:{port}/api/workflows/v1/{workflow_id}/{what}
get_cromwell_links(server, workflow_id, port) ==
    [metadata |-> <<server, port, workflow_id, "metadata">>,
     timing |-> <<server, port, workflow_id, "timing">>]

\* call_list, lines 306-310: process_job adds the two links to the job
process_job(a, job) ==
    LET links == get_cromwell_links(a.server, job.id, CromwellPort)
    IN  [id |-> job.id, status |-> job.status,
         metadata |-> links.metadata, timing |-> links.timing]

\* call_list, lines 299-300: Monitor(..., no_notify=True, ...)
ListNoNotify == TRUE

----------------------------------------------------------------------------
(* Initial state: the process after parser.parse_args() *)

RunArgs ==
    [validate : BOOLEAN, label : LabelInputs, extra_options : OptionInputs,
     monitor : BOOLEAN, no_notify : BOOLEAN, daemon : BOOLEAN,
     workflow_id : {NoneId, OldId}, username : {User},
     verbose : {FALSE}, interval : {DefaultInterval}]

MonitorArgs ==
    [validate : {FALSE}, label : {Absent}, extra_options : {Absent},
     monitor : {TRUE}, no_notify : BOOLEAN, daemon : BOOLEAN,
     workflow_id : {NoneId, OldId}, username : {User},
     verbose : BOOLEAN, interval : {DefaultInterval}]

ValidateArgs == [monitor : {FALSE}]

AbortArgs == [workflow_id : {OldId}, monitor : {FALSE}]

EmailArgs ==
    [workflow_id : {NoneString, OldId}, username : {User}, monitor : {FALSE},
     daemon : BOOLEAN, server : {Server}]

RestartArgs == [workflow_id : {OldId}, monitor : {TRUE}, disable_caching : BOOLEAN]

ExplainArgs == [workflow_id : {OldId}, input : BOOLEAN, monitor : {FALSE}]

LogArgs == [workflow_id : {OldId}, monitor : {FALSE}]

LabelArgs == [workflow_id : {NoneString, OldId}, label : LabelInputs, monitor : {FALSE}]

FilterInputs == {Absent, Given(<<"Succeeded">>), Given(<<"Running", "Failed">>)}

QueryArgs ==
    [workflow_id : {NoneString, OldId}, status : BOOLEAN, metadata : BOOLEAN,
     logs : BOOLEAN, username : {User}, label : OptionInputs, filter : FilterInputs,
     all : BOOLEAN, monitor : {FALSE}, server : {Server}]

\* The subcommands of the parser that are followed here
----------------------------------------------------------------------------
(* upload: the dependencies archive and the directory next to it *)

\* Names an archive can hold: a file at the top, a directory entry, and a file
\* inside that directory.  os.path.join(path, fn) names the same entries of
\* the directory next to the archive.
Members == {"a.wdl", "d/", "d/b.wdl"}

\* zip_ref.namelist(): the members in archive order
Archives ==
    { l \in SeqsUpTo(Members, MaxMembers) :
          \A i, j \in 1..Len(l) : i # j => l[i] # l[j] }

IsDirEntry(fn) == fn = "d/"
HasParent(fn) == fn = "d/b.wdl"
Parent(fn) == "d/"

\* What an entry of the directory holds: nothing, what it held before the
\* call, or what the archive put there.
UploadDisks ==
    { [kind |-> "dir", entries |-> e] :
          e \in { f \in [Members -> {"absent", "old"}] :
                      f["d/b.wdl"] = "old" => f["d/"] = "old" } }

\* os.path.exists(f)
Exists(d, fn) == d.entries[fn] # "absent"

\* zipfile.ZipFile.extract(fn, path): writes the member, creating the
\* directories above it that are missing
Extract(d, fn) ==
    [d EXCEPT !.entries =
        [m \in Members |->
            IF m = fn THEN "new"
            ELSE IF HasParent(fn) /\ m = Parent(fn) /\ d.entries[m] = "absent" THEN "new"
            ELSE d.entries[m]]]

\* call_upload, lines 399-403: the extraction loop over zip_files, from the
\* directory d and the created_files so far
RECURSIVE ExtractMissing(_, _, _)
ExtractMissing(zip_files, d, created_files) ==
    IF zip_files = <<>> THEN [disk |-> d, created_files |-> created_files]
    ELSE LET fn == Head(zip_files)
         IN  IF ~Exists(d, fn)
             THEN ExtractMissing(Tail(zip_files), Extract(d, fn), Append(created_files, fn))
             ELSE ExtractMissing(Tail(zip_files), d, created_files)

\* call_upload, lines 407-408: os.unlink of every created file in order;
\* os.unlink of a directory raises OSError and ends the loop
RECURSIVE UnlinkAll(_, _)
UnlinkAll(created_files, d) ==
    IF created_files = <<>> THEN [disk |-> d, error |-> "none"]
    ELSE LET f == Head(created_files)
         IN  IF IsDirEntry(f) THEN [disk |-> d, error |-> "OSError"]
             ELSE UnlinkAll(Tail(created_files),
                            [d EXCEPT !.entries = [@ EXCEPT ![f] = "absent"]])

\* SingleBucket.upload_workflow_input_files: uploads, or raises
UploadReplies == {"uploaded", "UploadError"}

UploadArgs ==
    [dependencies : {Absent} \cup { Given(l) : l \in Archives }, bucket : {"bucket"}]

----------------------------------------------------------------------------
(* batch and testapp: the sample sheet and the project directory *)

ProjectName == "project"

\* parse_samples: one dict per row of the sheet; a sheet has the sample_id
\* column or lacks it
SampleRows == { [sample_id |-> "s1"], [sample_id |-> "s2"], [name |-> "s1"] }
SampleSheets == SeqsUpTo(SampleRows, MaxSamples)

\* The working directory: whether the project directory exists, the sample
\* directories in it, and submitted.csv
ProjectDisks ==
    { [kind |-> "project", project |-> b, dirs |-> {}, csv |-> Absent] : b \in BOOLEAN }

\* render_app, write and shutil.copyfile on one sample: done, or an error
SampleOutcomes == {"done", "RenderError", "CopyError"}

BatchArgs == [project_name : {ProjectName}, app_name : {"app"}, samples : SampleSheets]
TestappArgs == [project_name : {ProjectName}, app_dir : {"app_dir"}, samples : SampleSheets]

\* call_batch, line 465, call_testapp, line 515: keys = successed_samples[0].keys()
FinallyKeys(successed_samples) ==
    IF successed_samples = <<>> THEN "IndexError" ELSE "none"

----------------------------------------------------------------------------
(* Scaffold: the template directory and the output directory *)

\* Scaffold.__init__, lines 19-20
file_list == <<"README.md", "workflow.wdl", "inputs", "defaults">>
dir_list == <<"tasks", "test", "docker">>

Range(q) == { q[i] : i \in 1..Len(q) }
TemplateNames == Range(file_list) \cup Range(dir_list)

\* What scaffold_template holds under each name, and what the output
\* directory has received
ScaffoldDisks ==
    { [kind |-> "scaffold", template |-> t, output |-> {}] :
          t \in [TemplateNames -> {"file", "dir", "missing"}] }

ScaffoldArgs == [output_dir : {"."}]

\* os.path.isfile, os.path.isdir
isfile(d, n) == d.template[n] = "file"
isdir(d, n) == d.template[n] = "dir"

\* Scaffold._check_file, lines 32-37
RECURSIVE Scaffold_check_file(_, _)
Scaffold_check_file(d, l) ==
    IF l = <<>> THEN "none"
    ELSE IF ~isfile(d, Head(l)) THEN "NoSuchFile:" \o Head(l)
    ELSE Scaffold_check_file(d, Tail(l))

\* Scaffold._check_dir, lines 39-44
RECURSIVE Scaffold_check_dir(_, _)
Scaffold_check_dir(d, l) ==
    IF l = <<>> THEN "none"
    ELSE IF ~isdir(d, Head(l)) THEN "NoSuchDirectory:" \o Head(l)
    ELSE Scaffold_check_dir(d, Tail(l))

\* Variant: the directories are checked before the files.
ScaffoldChecksDirsFirst(d) ==
    LET e == Scaffold_check_dir(d, dir_list)
    IN  IF e # "none" THEN e ELSE Scaffold_check_file(d, file_list)

\* Scaffold.__init__, lines 25-26: the files, then the directories
ScaffoldChecks(d) ==
    LET e == Scaffold_check_file(d, file_list)
    IN  IF e # "none" THEN e ELSE Scaffold_check_dir(d, dir_list)

\* The directories a subcommand can find
DisksOf(c) ==
    CASE c = "upload" -> UploadDisks
      [] c = "scaffold" -> ScaffoldDisks
      [] c \in {"batch", "testapp"} -> ProjectDisks
      [] OTHER -> {NoDisk}

Commands ==
    {"run", "monitor", "validate", "email", "restart", "explain", "log", "label", "query",
     "abort", "upload", "batch", "testapp"}

\* The entries of the package: the subcommands of choppy.py, and the Scaffold
\* class of scaffold.py, which no subcommand reaches
Entries == Commands \cup {"scaffold"}

\* The namespaces parse_args() can yield for a subcommand
ArgsOf(c) ==
    CASE c = "run" -> RunArgs
      [] c = "monitor" -> MonitorArgs
      [] c = "validate" -> ValidateArgs
      [] c = "email" -> EmailArgs
      [] c = "restart" -> RestartArgs
      [] c = "explain" -> ExplainArgs
      [] c = "log" -> LogArgs
      [] c = "label" -> LabelArgs
      [] c = "query" -> QueryArgs
      [] c = "abort" -> AbortArgs
      [] c = "upload" -> UploadArgs
      [] c = "batch" -> BatchArgs
      [] c = "testapp" -> TestappArgs
      [] c = "scaffold" -> ScaffoldArgs

\* set_defaults(func=...): where the handler of a subcommand starts
Handler(c) ==
    CASE c = "run" -> "validate"
      [] c = "monitor" -> "monitor"
      [] OTHER -> "call_" \o c

\* Where an entry starts: main() for a subcommand, the constructor for Scaffold
Start(c) == IF c \in Commands THEN "main" ELSE "scaffold_init"

Init ==
    /\ cmd \in Entries
    /\ args \in ArgsOf(cmd)
    /\ pc = Start(cmd)
    /\ validation = [ran |-> FALSE, errors |-> <<>>]
    /\ labels_dict = [built |-> FALSE, dict |-> EmptyDict]
    /\ submits = <<>>
    /\ result = NoneId
    /\ engine = NoEngine
    /\ enginePolls = 0
    /\ retry = 0
    /\ monitorCalls = <<>>
    /\ monLog = <<>>
    /\ mon = NoMonitor
    /\ firstTerminal = [w \in Workflows |-> 0]
    /\ sent = {}
    /\ returned = NoneId
    /\ dumped = FALSE
    /\ outcome = "running"
    /\ events = <<>>
    /\ snapshots = <<>>
    /\ reply = NoReply
    /\ files \in (IF cmd = "log" THEN SUBSET CallKeys ELSE {{}})
    /\ printed = <<>>
    /\ disk \in DisksOf(cmd)
    /\ disk0 = disk
    /\ local = NoLocal
    /\ args0 = args
    /\ error = "none"

----------------------------------------------------------------------------
(* Steps *)

\* An error nobody handles leaves main() and ends the process.
Raise(e) ==
    /\ pc' = "exit"
    /\ outcome' = "error"
    /\ error' = e

\* main, line 744: result = args.func(args)
Dispatch ==
    /\ pc = "main"
    /\ UNCHANGED ioVars
    /\ UNCHANGED events
    /\ UNCHANGED <<snapshots, reply, files, printed>>
    /\ pc' = Handler(cmd)
    /\ UNCHANGED <<cmd, args, validation, labels_dict, submits, result, engine,
                   enginePolls, retry, monitorCalls, monLog, mon, firstTerminal,
                   sent, returned, dumped, outcome, error>>

\* call_run, lines 95-96, with call_validate, lines 170-181
RunValidate ==
    /\ pc = "validate"
    /\ UNCHANGED ioVars
    /\ events' = IF args.validate THEN Append(events, "validate") ELSE events
    /\ UNCHANGED <<snapshots, reply, files, printed>>
    /\ IF args.validate
       THEN \E res \in ValidatorResults :
               /\ validation' = [ran |-> TRUE, errors |-> res]
               /\ IF ValidationFails(res)
                  THEN pc' = "exit" /\ outcome' = "exit1"
                  ELSE pc' = "labels" /\ outcome' = outcome
       ELSE pc' = "labels" /\ UNCHANGED <<validation, outcome>>
    /\ UNCHANGED <<cmd, args, labels_dict, submits, result, engine, enginePolls,
                   retry, monitorCalls, monLog, mon, firstTerminal, sent,
                   returned, dumped, error>>

\* Variant: a label list that does not parse is replaced by no labels.
RunLabelsSwallowing ==
    /\ pc = "labels"
    /\ UNCHANGED ioVars
    /\ events' = Append(events, "labels")
    /\ UNCHANGED <<snapshots, reply, files, printed>>
    /\ labels_dict' = [built |-> TRUE,
                       dict |-> BuildLabels(IF Malformed(args.label) THEN Absent ELSE args.label,
                                            args.username)]
    /\ pc' = "submit"
    /\ UNCHANGED <<cmd, args, validation, submits, result, engine, enginePolls,
                   retry, monitorCalls, monLog, mon, firstTerminal, sent,
                   returned, dumped, outcome, error>>

\* call_run, lines 99-100
RunLabels ==
    /\ pc = "labels"
    /\ UNCHANGED ioVars
    /\ events' = IF Malformed(args.label) THEN events ELSE Append(events, "labels")
    /\ UNCHANGED <<snapshots, reply, files, printed>>
    /\ IF Malformed(args.label)
       THEN Raise("MalformedLabelError") /\ UNCHANGED labels_dict
       ELSE /\ labels_dict' = [built |-> TRUE, dict |-> BuildLabels(args.label, args.username)]
            /\ pc' = "submit"
            /\ UNCHANGED <<outcome, error>>
    /\ UNCHANGED <<cmd, args, validation, submits, result, engine, enginePolls,
                   retry, monitorCalls, monLog, mon, firstTerminal, sent,
                   returned, dumped>>

\* call_run, lines 101-105: the extra options are parsed, then the engine is asked
RunSubmit ==
    /\ pc = "submit"
    /\ UNCHANGED ioVars
    /\ events' = IF Malformed(args.extra_options) THEN events ELSE Append(events, "submit")
    /\ UNCHANGED <<snapshots, reply, files, printed>>
    /\ IF Malformed(args.extra_options)
       THEN Raise("MalformedLabelError") /\ UNCHANGED <<submits, result>>
       ELSE \E accepted \in BOOLEAN :
               /\ submits' = Append(submits, [labels |-> labels_dict.dict, accepted |-> accepted])
               /\ IF accepted
                  THEN result' = NewId /\ pc' = "links" /\ UNCHANGED <<outcome, error>>
                  ELSE Raise("TransportError") /\ UNCHANGED result
    /\ UNCHANGED <<cmd, args, validation, labels_dict, engine, enginePolls, retry,
                   monitorCalls, monLog, mon, firstTerminal, sent, returned, dumped>>

\* call_run, lines 107-116: the links are printed, args.workflow_id is set
RunLinks ==
    /\ pc = "links"
    /\ UNCHANGED ioVars
    /\ events' = Append(events, "links")
    /\ UNCHANGED <<snapshots, reply, files, printed>>
    /\ args' = [args EXCEPT !.workflow_id = result]
    /\ pc' = AfterLinks(args)
    /\ UNCHANGED <<cmd, validation, labels_dict, submits, result, engine,
                   enginePolls, retry, monitorCalls, monLog, mon, firstTerminal,
                   sent, returned, dumped, outcome, error>>

\* call_run, lines 119-122: the grace sleep, then retry = 4
RunSleep ==
    /\ pc = "sleep"
    /\ UNCHANGED ioVars
    /\ events' = Append(events, "sleep")
    /\ UNCHANGED <<snapshots, reply, files, printed>>
    /\ retry' = RetryBudget
    /\ pc' = "loop"
    /\ UNCHANGED <<cmd, args, validation, labels_dict, submits, result, engine,
                   enginePolls, monitorCalls, monLog, mon, firstTerminal, sent,
                   returned, dumped, outcome, error>>

\* call_run, line 123: while retry != 0
RunLoop ==
    /\ pc = "loop"
    /\ UNCHANGED ioVars
    /\ UNCHANGED events
    /\ UNCHANGED <<snapshots, reply, files, printed>>
    /\ pc' = IF retry # 0 THEN "monitor" ELSE "return"
    /\ UNCHANGED <<cmd, args, validation, labels_dict, submits, result, engine,
                   enginePolls, retry, monitorCalls, monLog, mon, firstTerminal,
                   sent, returned, dumped, outcome, error>>

\* call_monitor, lines 201-215: the Monitor is built and its monitoring started
CallMonitor ==
    /\ pc = "monitor"
    /\ UNCHANGED ioVars
    /\ events' = Append(events, "monitor")
    /\ UNCHANGED <<snapshots, reply, files, printed>>
    /\ LET mode == MonitorMode(args)
       IN  /\ mon' = [mode |-> mode, owner |-> MonitorOwner(args),
                      target |-> IF mode = "single" THEN args.workflow_id ELSE NoneId,
                      no_notify |-> MonitorNoNotify(args),
                      verbose |-> MonitorVerbose(args),
                      interval |-> MonitorInterval(args), polls |-> 0,
                      state |-> "polling", exc |-> "none", notified |-> {}]
           /\ monitorCalls' = Append(monitorCalls,
                  [mode |-> mode, owner |-> MonitorOwner(args),
                   target |-> IF mode = "single" THEN args.workflow_id ELSE NoneId])
           /\ pc' = IF mode = "single" THEN "polling" ELSE "listing"
           /\ \E e \in (IF mode = "single" /\ engine = NoEngine
                        THEN EngineBehaviours ELSE {engine}) : engine' = e
    /\ UNCHANGED <<cmd, args, validation, labels_dict, submits, result,
                   enginePolls, retry, monLog, firstTerminal, sent, returned,
                   dumped, outcome, error>>

\* Monitor.monitor_workflow, one tick (spec section 4.4, single-workflow mode)
MonitorWorkflowTick ==
    /\ pc = "polling"
    /\ UNCHANGED ioVars
    /\ events' = Append(events, "poll")
    /\ UNCHANGED <<snapshots, reply, files, printed>>
    /\ mon.state = "polling"
    /\ enginePolls' = enginePolls + 1
    /\ LET a == Answer(engine, enginePolls + 1)
           tick == mon.polls + 1
       IN  IF a \in {Missing, Down}
           THEN /\ mon' = [mon EXCEPT !.polls = tick, !.state = "failed", !.exc = ErrorOf(a)]
                /\ sent' = sent
           ELSE IF StopsOn(a)
           THEN /\ mon' = [mon EXCEPT !.polls = tick, !.state = "stopped"]
                /\ sent' = IF mon.no_notify THEN sent
                           ELSE sent \cup {[call |-> Len(monitorCalls), wf |-> mon.target,
                                            tick |-> tick]}
           ELSE /\ mon' = [mon EXCEPT !.polls = tick]
                /\ sent' = sent
    /\ UNCHANGED <<cmd, args, pc, validation, labels_dict, submits, result, engine,
                   retry, monitorCalls, monLog, firstTerminal, returned, dumped,
                   outcome, error>>

\* Variant: the daemon keeps no record of the workflows it has notified.
MonitorUsersTickDaemonRenotifies ==
    /\ pc = "listing"
    /\ UNCHANGED ioVars
    /\ events' = Append(events, "poll")
    /\ UNCHANGED <<reply, files, printed>>
    /\ mon.state = "polling"
    /\ mon.polls < MaxTicks
    /\ \E answer \in ListAnswers :
          /\ snapshots' = Append(snapshots, answer)
          /\ LET tick == mon.polls + 1
                 terminal == { w \in Workflows : answer.statuses[w] \in TerminalStates }
                 newly == IF mon.mode = "daemon" THEN terminal
                          ELSE NewlyTerminal(terminal, mon.notified)
             IN  IF answer.kind # "ok"
                 THEN /\ mon' = [mon EXCEPT !.polls = tick, !.state = "failed",
                                            !.exc = ErrorOf(answer.kind)]
                      /\ UNCHANGED <<sent, firstTerminal>>
                 ELSE /\ mon' = [mon EXCEPT !.polls = tick, !.notified = @ \cup newly]
                      /\ sent' = IF mon.no_notify THEN sent
                                 ELSE sent \cup { [call |-> Len(monitorCalls), wf |-> w,
                                                   tick |-> tick] : w \in newly }
                      /\ firstTerminal' =
                             [w \in Workflows |->
                                 IF firstTerminal[w] = 0 /\ w \in terminal
                                 THEN tick ELSE firstTerminal[w]]
    /\ UNCHANGED <<cmd, args, pc, validation, labels_dict, submits, result, engine,
                   enginePolls, retry, monitorCalls, monLog, returned, dumped,
                   outcome, error>>

\* Monitor.run / Monitor.monitor_user_workflows, one tick (spec section 4.4,
\* multi-workflow and daemon mode)
MonitorUsersTick ==
    /\ pc = "listing"
    /\ UNCHANGED ioVars
    /\ events' = Append(events, "poll")
    /\ UNCHANGED <<reply, files, printed>>
    /\ mon.state = "polling"
    /\ mon.polls < MaxTicks
    /\ \E answer \in ListAnswers :
          /\ snapshots' = Append(snapshots, answer)
          /\ LET tick == mon.polls + 1
                 terminal == { w \in Workflows : answer.statuses[w] \in TerminalStates }
                 newly == NewlyTerminal(terminal, mon.notified)
             IN  IF answer.kind # "ok"
                 THEN /\ mon' = [mon EXCEPT !.polls = tick, !.state = "failed",
                                            !.exc = ErrorOf(answer.kind)]
                      /\ UNCHANGED <<sent, firstTerminal>>
                 ELSE /\ mon' = [mon EXCEPT !.polls = tick, !.notified = @ \cup newly]
                      /\ sent' = IF mon.no_notify THEN sent
                                 ELSE sent \cup { [call |-> Len(monitorCalls), wf |-> w,
                                                   tick |-> tick] : w \in newly }
                      /\ firstTerminal' =
                             [w \in Workflows |->
                                 IF firstTerminal[w] = 0 /\ w \in terminal
                                 THEN tick ELSE firstTerminal[w]]
    /\ UNCHANGED <<cmd, args, pc, validation, labels_dict, submits, result, engine,
                   enginePolls, retry, monitorCalls, monLog, returned, dumped,
                   outcome, error>>

\* call_monitor, lines 216-217, ends, and its caller goes on: call_run at lines
\* 126-129, main at line 745
CallMonitorEnd ==
    /\ pc \in {"polling", "listing"}
    /\ UNCHANGED ioVars
    /\ UNCHANGED events
    /\ UNCHANGED <<snapshots, reply, files, printed>>
    /\ mon.state \in {"stopped", "failed"}
    /\ monLog' = Append(monLog, IF mon.state = "stopped" THEN "stopped" ELSE mon.exc)
    /\ LET escaped == IF mon.state = "failed" /\ ~CallMonitorCatches(mon.exc)
                      THEN mon.exc ELSE "none"
       IN  IF cmd = "run"
           THEN IF escaped = "none"
                THEN retry' = 0 /\ pc' = "loop" /\ UNCHANGED <<outcome, error>>
                ELSE IF RunRetries(escaped)
                THEN retry' = retry - 1 /\ pc' = "loop" /\ UNCHANGED <<outcome, error>>
                ELSE Raise(escaped) /\ UNCHANGED retry
           ELSE IF escaped = "none"
                THEN pc' = "dump" /\ UNCHANGED <<retry, outcome, error>>
                ELSE Raise(escaped) /\ UNCHANGED retry
    /\ UNCHANGED <<cmd, args, validation, labels_dict, submits, result, engine,
                   enginePolls, monitorCalls, mon, firstTerminal, sent, returned,
                   dumped>>

\* call_run, line 130: return result
RunReturn ==
    /\ pc = "return"
    /\ UNCHANGED ioVars
    /\ UNCHANGED events
    /\ UNCHANGED <<snapshots, reply, files, printed>>
    /\ returned' = result
    /\ pc' = "dump"
    /\ UNCHANGED <<cmd, args, validation, labels_dict, submits, result, engine,
                   enginePolls, retry, monitorCalls, monLog, mon, firstTerminal,
                   sent, dumped, outcome, error>>

\* main, lines 745-752: the JSON dump unless args.monitor, then the normal end
MainDump ==
    /\ pc = "dump"
    /\ UNCHANGED ioVars
    /\ UNCHANGED events
    /\ UNCHANGED <<snapshots, reply, files, printed>>
    /\ dumped' = MainDumps(args)
    /\ outcome' = "exit0"
    /\ pc' = "exit"
    /\ UNCHANGED <<cmd, args, validation, labels_dict, submits, result, engine,
                   enginePolls, retry, monitorCalls, monLog, mon, firstTerminal,
                   sent, returned, error>>

\* The locals of call_run and the state of the monitoring, which the handlers
\* below leave alone
runVars == <<labels_dict, submits, result, retry>>
monitorVars == <<engine, enginePolls, monitorCalls, monLog, mon, firstTerminal, sent,
                 snapshots>>

\* call_abort, lines 184-192
CallAbort ==
    /\ pc = "call_abort"
    /\ \E r \in AbortReplies :
          /\ reply' = r
          /\ returned' = r
    /\ events' = Append(events, "stop_workflow")
    /\ pc' = "dump"
    /\ UNCHANGED <<cmd, args, validation, runVars, monitorVars, dumped, outcome,
                   files, printed, ioVars, error>>

\* call_validate, lines 163-181, as the validate subcommand
CallValidate ==
    /\ pc = "call_validate"
    /\ UNCHANGED ioVars
    /\ \E res \in ValidatorResults :
          /\ validation' = [ran |-> TRUE, errors |-> res]
          /\ IF ValidationFails(res)
             THEN pc' = "exit" /\ outcome' = "exit1"
             ELSE pc' = "dump" /\ outcome' = outcome
    /\ UNCHANGED <<cmd, args, runVars, monitorVars, returned, dumped, events, reply,
                   files, printed, error>>

\* call_email, lines 383-386: three attributes are set, then call_monitor
CallEmail ==
    /\ pc = "call_email"
    /\ UNCHANGED ioVars
    /\ args' = SetAttr(SetAttr(SetAttr(args, "verbose", EmailSettings.verbose),
                               "no_notify", EmailSettings.no_notify),
                       "interval", EmailSettings.interval)
    /\ pc' = "monitor"
    /\ UNCHANGED <<cmd, validation, runVars, monitorVars, returned, dumped, outcome,
                   events, reply, files, printed, error>>

\* call_restart, lines 220-237
CallRestart ==
    /\ pc = "call_restart"
    /\ UNCHANGED ioVars
    /\ \E r \in RestartReplies :
          /\ reply' = r
          /\ printed' = Append(printed, RestartReport(args, r))
    /\ events' = Append(events, "restart_workflow")
    /\ pc' = "dump"
    /\ UNCHANGED <<cmd, args, validation, runVars, monitorVars, returned, dumped,
                   outcome, files, error>>

\* call_explain, lines 252-294
CallExplain ==
    /\ pc = "call_explain"
    /\ UNCHANGED ioVars
    /\ \E r \in ExplainReplies :
          /\ reply' = r
          /\ LET sections == ExplainSections(r)
             IN  printed' = printed \o
                     [i \in 1..Len(sections) |->
                         Line(sections[i], IF sections[i] = "links" THEN r.id ELSE NoneId)]
    /\ events' = Append(events, "explain_workflow")
    /\ args' = [args EXCEPT !.monitor = TRUE]
    /\ pc' = "dump"
    /\ UNCHANGED <<cmd, validation, runVars, monitorVars, returned, dumped, outcome,
                   files, error>>

\* call_log, lines 349-373: the calls are printed, each script is read, and the
\* commands are printed at the end
CallLog ==
    /\ pc = "call_log"
    /\ UNCHANGED ioVars
    /\ \E r \in LogReplies :
          /\ reply' = r
          /\ IF AllScriptsRead(r.calls, files)
             THEN /\ printed' = printed \o <<Line("calls", NoneId)>> \o
                                 [i \in 1..Len(r.calls) |-> Line("command", ToString(r.calls[i]))]
                  /\ pc' = "dump"
                  /\ UNCHANGED <<outcome, error>>
             ELSE /\ printed' = Append(printed, Line("calls", NoneId))
                  /\ Raise("IOError")
    /\ events' = Append(events, "get_logs")
    /\ UNCHANGED <<cmd, args, validation, runVars, monitorVars, returned, dumped, files>>

\* call_label, lines 334-346
CallLabel ==
    /\ pc = "call_label"
    /\ UNCHANGED ioVars
    /\ IF Malformed(args.label)
       THEN Raise("MalformedLabelError") /\ UNCHANGED <<events, reply, printed>>
       ELSE \E code \in StatusCodes :
               /\ events' = Append(events, "label_workflow")
               /\ reply' = [kind |-> "label", status_code |-> code]
               /\ printed' = Append(printed,
                      Line(IF code = StatusOK THEN "labels_applied" ELSE "labels_rejected",
                           args.workflow_id))
               /\ pc' = LabelEnds(code).pc
               /\ outcome' = IF LabelEnds(code).outcome = "running" THEN outcome
                             ELSE LabelEnds(code).outcome
               /\ UNCHANGED error
    /\ UNCHANGED <<cmd, args, validation, runVars, monitorVars, returned, dumped, files>>

\* call_query, lines 133-160
CallQuery ==
    /\ pc = "call_query"
    /\ UNCHANGED ioVars
    /\ LET mode == QueryMode(args)
       IN  IF mode = "list"
           THEN pc' = "call_list" /\ UNCHANGED <<events, returned, outcome, error>>
           ELSE IF mode = "label"
           THEN IF Malformed(args.label)
                THEN Raise("MalformedLabelError") /\ UNCHANGED <<events, returned>>
                ELSE /\ events' = Append(events, "query_labels")
                     /\ returned' = [kind |-> "labeled", items |-> <<>>]
                     /\ pc' = "dump"
                     /\ UNCHANGED <<outcome, error>>
           ELSE /\ events' = events \o QueryResponses(args)
                /\ returned' = [kind |-> "responses", items |-> QueryResponses(args)]
                /\ pc' = "dump"
                /\ UNCHANGED <<outcome, error>>
    /\ UNCHANGED <<cmd, args, validation, runVars, monitorVars, dumped, reply, files,
                   printed>>

\* call_list, lines 297-331
CallList ==
    /\ pc = "call_list"
    /\ UNCHANGED ioVars
    /\ events' = Append(events, "list")
    /\ mon' = [NoMonitor EXCEPT !.mode = "list", !.owner = ListOwner(args),
                                !.no_notify = ListNoNotify, !.verbose = TRUE]
    /\ \E answer \in ListAnswers :
          /\ reply' = [kind |-> "list", owner |-> ListOwner(args), answer |-> answer]
          /\ IF answer.kind = Down
             THEN Raise("TransportError") /\ UNCHANGED <<args, returned, printed>>
             ELSE IF answer.kind = Missing
             THEN /\ printed' = Append(printed, Line("list_failed", NoneId))
                  /\ returned' = [kind |-> "none", items |-> <<>>]
                  /\ pc' = "dump"
                  /\ UNCHANGED <<args, outcome, error>>
             ELSE /\ printed' = Append(printed, Line("list", NoneId))
                  /\ returned' =
                         LET jobs == ListFilter(ListResults(answer), args.filter)
                         IN  [kind |-> "list",
                              items |-> [i \in 1..Len(jobs) |-> process_job(args, jobs[i])]]
                  /\ args' = [args EXCEPT !.monitor = TRUE]
                  /\ pc' = "dump"
                  /\ UNCHANGED <<outcome, error>>
    /\ UNCHANGED <<cmd, validation, runVars, engine, enginePolls, monitorCalls, monLog,
                   firstTerminal, sent, snapshots, dumped, files>>

\* What call_upload leaves alone
uploadFrame == <<cmd, args, validation, runVars, monitorVars, returned, dumped, reply,
                 files, printed, disk0, args0>>

\* call_upload, lines 394-404: extract the members that do not exist
UploadExtract ==
    /\ pc = "call_upload"
    /\ LET r == IF args.dependencies.some
                THEN ExtractMissing(args.dependencies.list, disk, <<>>)
                ELSE [disk |-> disk, created_files |-> <<>>]
       IN  /\ disk' = r.disk
           /\ local' = [kind |-> "upload", created_files |-> r.created_files]
    /\ events' = Append(events, "extract")
    /\ pc' = "upload_send"
    /\ UNCHANGED <<uploadFrame, outcome, error>>

\* call_upload, lines 405-406: the upload
UploadSend ==
    /\ pc = "upload_send"
    /\ \E r \in UploadReplies :
          IF r = "uploaded"
          THEN /\ pc' = "upload_cleanup"
               /\ UNCHANGED <<outcome, error>>
          ELSE Raise(r)
    /\ events' = Append(events, "upload")
    /\ UNCHANGED <<uploadFrame, disk, local>>

\* call_upload, lines 407-409: delete the created files and report
UploadCleanup ==
    /\ pc = "upload_cleanup"
    /\ LET r == UnlinkAll(local.created_files, disk)
       IN  /\ disk' = r.disk
           /\ IF r.error = "none"
              THEN /\ pc' = "dump"
                   /\ UNCHANGED <<outcome, error>>
              ELSE Raise(r.error)
    /\ events' = Append(events, "unlink")
    /\ UNCHANGED <<uploadFrame, local>>

\* What call_batch and call_testapp leave alone
sheetFrame == <<cmd, args, validation, runVars, monitorVars, returned, dumped, reply,
                files, printed, disk0, args0>>

\* check_dir(project_path) and parse_samples(samples), lines 428-431 and
\* 478-481, of the subcommand c
SheetStart(c) ==
    /\ cmd = c
    /\ pc = Handler(c)
    /\ IF disk.project
       THEN /\ Raise("NotEmpty")
            /\ UNCHANGED <<disk, local>>
       ELSE /\ disk' = [disk EXCEPT !.project = TRUE]
            /\ local' = [kind |-> "sheet", samples_data |-> args.samples, i |-> 1,
                         successed_samples |-> <<>>, raised |-> "none"]
            /\ pc' = IF args.samples = <<>> THEN "sheet_finally" ELSE "sheet_loop"
            /\ UNCHANGED <<outcome, error>>
    /\ events' = Append(events, "check_dir")
    /\ UNCHANGED sheetFrame

\* One pass of the loop in the try block, lines 434-462 and 484-512, of the
\* subcommand c; an error leaves the loop for the finally clause
SheetSample(c) ==
    /\ cmd = c
    /\ pc = "sheet_loop"
    /\ LET sample == local.samples_data[local.i]
           leave(e) == /\ local' = [local EXCEPT !.raised = e]
                       /\ pc' = "sheet_finally"
       IN  IF "sample_id" \notin DOMAIN sample
           THEN /\ leave("MissingSampleId")
                /\ UNCHANGED disk
           ELSE IF sample.sample_id \in disk.dirs
           THEN /\ leave("NotEmpty")
                /\ UNCHANGED disk
           ELSE /\ disk' = [disk EXCEPT !.dirs = @ \cup {sample.sample_id}]
                /\ \E o \in SampleOutcomes :
                      IF o = "done"
                      THEN /\ local' = [local EXCEPT
                                  !.successed_samples =
                                      Append(@, SetAttr(sample, "project_name",
                                                        args.project_name)),
                                  !.i = @ + 1]
                           /\ pc' = IF local.i = Len(local.samples_data)
                                    THEN "sheet_finally" ELSE "sheet_loop"
                      ELSE leave(o)
    /\ events' = Append(events, "sample")
    /\ UNCHANGED <<sheetFrame, outcome, error>>

\* The finally clause, lines 464-469 and 514-519, of the subcommand c: an
\* error raised in it replaces the one that left the loop
SheetFinally(c) ==
    /\ cmd = c
    /\ pc = "sheet_finally"
    /\ IF FinallyKeys(local.successed_samples) # "none"
       THEN /\ Raise(FinallyKeys(local.successed_samples))
            /\ UNCHANGED disk
       ELSE /\ disk' = [disk EXCEPT !.csv = Given(local.successed_samples)]
            /\ IF local.raised # "none"
               THEN Raise(local.raised)
               ELSE /\ pc' = "dump"
                    /\ UNCHANGED <<outcome, error>>
    /\ events' = Append(events, "finally")
    /\ UNCHANGED <<sheetFrame, local>>

\* call_batch, lines 420-469
CallBatchStart == SheetStart("batch")
CallBatchSample == SheetSample("batch")
CallBatchFinally == SheetFinally("batch")

\* call_testapp, lines 472-519
CallTestappStart == SheetStart("testapp")
CallTestappSample == SheetSample("testapp")
CallTestappFinally == SheetFinally("testapp")

\* What Scaffold leaves alone
scaffoldFrame == <<cmd, args, validation, runVars, monitorVars, returned, dumped, reply,
                   files, printed, disk0, args0>>

\* Scaffold.__init__, lines 18-30
ScaffoldInit ==
    /\ pc = "scaffold_init"
    /\ IF ScaffoldChecks(disk) = "none"
       THEN /\ local' = [kind |-> "scaffold", output_dir |-> args.output_dir]
            /\ pc' = "scaffold_generate"
            /\ UNCHANGED <<outcome, error>>
       ELSE /\ Raise(ScaffoldChecks(disk))
            /\ UNCHANGED local
    /\ events' = Append(events, "check")
    /\ UNCHANGED <<scaffoldFrame, disk>>

\* Scaffold.generate, lines 105-119: the three directories, then the four files
ScaffoldGenerate ==
    /\ pc = "scaffold_generate"
    /\ disk' = [disk EXCEPT !.output = Range(dir_list) \cup Range(file_list)]
    /\ events' = Append(events, "generate")
    /\ pc' = "returned"
    /\ UNCHANGED <<scaffoldFrame, local, outcome, error>>

Next ==
    \/ Dispatch
    \/ RunValidate
    \/ RunLabels
    \/ RunSubmit
    \/ RunLinks
    \/ RunSleep
    \/ RunLoop
    \/ CallMonitor
    \/ MonitorWorkflowTick
    \/ MonitorUsersTick
    \/ CallMonitorEnd
    \/ RunReturn
    \/ CallAbort
    \/ CallValidate
    \/ CallEmail
    \/ CallRestart
    \/ CallExplain
    \/ CallLog
    \/ CallLabel
    \/ CallQuery
    \/ CallList
    \/ UploadExtract
    \/ UploadSend
    \/ UploadCleanup
    \/ CallBatchStart
    \/ CallBatchSample
    \/ CallBatchFinally
    \/ CallTestappStart
    \/ CallTestappSample
    \/ CallTestappFinally
    \/ ScaffoldInit
    \/ ScaffoldGenerate
    \/ MainDump

Spec == Init /\ [][Next]_vars

----------------------------------------------------------------------------
(* Properties of the run flow *)

RunFlowEnded == cmd = "run" /\ pc \in {"dump", "exit"}

\* The run flow monitors the single workflow it submitted.
RunMonitorsSingle == cmd = "run" /\ monitorCalls # <<>> /\ monitorCalls[1].mode = "single"

LastOf(s) == s[Len(s)]

\* C1: in the run flow the monitor call is retried under a budget of 4: each
\* missing-field error (KeyError) of the monitoring consumes one unit and the
\* monitor call is invoked again while budget remains, so a workflow whose
\* first four status answers lack the field gets exactly four monitor
\* invocations, never a fifth, and the run flow then ends.
C1_KeyErrorRetriedUnderBudget ==
    (RunFlowEnded /\ RunMonitorsSingle) =>
        /\ Len(monitorCalls) <= RetryBudget
        /\ \A i \in 1..Len(monLog) :
              (monLog[i] = "KeyError" /\ i < RetryBudget) => Len(monitorCalls) > i
        /\ (engine.notReady >= RetryBudget => Len(monitorCalls) = RetryBudget)

\* C2: once submit succeeded, the run flow never ends with an error or a
\* non-zero exit, whatever the monitoring does, and what call_run returns is
\* the submission result.
C2_RunReturnsSubmissionResult ==
    (cmd = "run" /\ result # NoneId) =>
        /\ outcome \in {"running", "exit0"}
        /\ error = "none"
        /\ (pc \in {"dump", "exit"} => returned = result)

\* A run whose monitoring failed with an error other than KeyError has ended
\* normally with the submission result.
C2_Witness ==
    /\ cmd = "run"
    /\ outcome = "exit0"
    /\ returned = NewId
    /\ monLog # <<>>
    /\ LastOf(monLog) = "TransportError"

\* C3: in the run flow an error of the monitoring other than KeyError is not
\* retried and is surfaced at once to the caller of the run flow.
C3_OtherErrorSurfaced ==
    (cmd = "run" /\ monLog # <<>> /\ LastOf(monLog) = "TransportError") =>
        /\ Len(monitorCalls) = Len(monLog)
        /\ pc = "exit"
        /\ outcome = "error"
        /\ error = "TransportError"

\* C4: in the run flow three missing-field failures of the monitoring followed
\* by a successful monitor call leave the retry budget at 1 (4 minus 3), and
\* the flow returns the submission result.
C4_ThreeFailuresLeaveOne ==
    (RunFlowEnded /\ RunMonitorsSingle /\ engine.notReady = 3
     /\ engine.final \in TerminalStates) =>
        /\ Len(monitorCalls) = 4
        /\ retry = 1
        /\ returned = result

ValidationPassed == ~args.validate \/ (validation.ran /\ validation.errors = <<>>)

ValidationRejected == validation.ran /\ validation.errors # <<>>

PastSubmit == cmd = "run" /\ pc \notin {"main", "validate", "labels", "submit"}

\* When validation was requested and reported an error, the flow has ended with
\* exit code 1 before labels, engine calls and monitoring.
RejectedEndsBeforeAnything ==
    ValidationRejected =>
        /\ pc = "exit"
        /\ outcome = "exit1"
        /\ ~labels_dict.built
        /\ submits = <<>>
        /\ monitorCalls = <<>>
        /\ enginePolls = 0
        /\ sent = {}

\* C5 as stated: a submission is attempted if and only if validation was not
\* requested or the validator returned no error; a rejected validation ends the
\* flow with exit code 1 before labels, engine calls and monitoring.
C5_SubmitIffValidationPassed ==
    /\ (submits # <<>> => ValidationPassed)
    /\ ((PastSubmit /\ ValidationPassed) => submits # <<>>)
    /\ RejectedEndsBeforeAnything

TokensParse == ~Malformed(args.label) /\ ~Malformed(args.extra_options)

\* C5 amended: a submission is attempted if and only if validation was not
\* requested or the validator returned no error, and every --label and
\* --extra_options token parses; a rejected validation ends the flow with exit
\* code 1 before labels, engine calls and monitoring.
C5_SubmitIffValidationPassedAndTokensParse ==
    /\ (submits # <<>> => (ValidationPassed /\ TokensParse))
    /\ ((PastSubmit /\ ValidationPassed /\ TokensParse) => submits # <<>>)
    /\ RejectedEndsBeforeAnything

\* A run that asked for validation, was rejected and ended with exit code 1.
C5_Witness ==
    /\ cmd = "run"
    /\ args.validate
    /\ validation.errors # <<>>
    /\ outcome = "exit1"
    /\ submits = <<>>

----------------------------------------------------------------------------
(* Properties of the Monitor *)

\* The notifications of the running (or last) Monitor
Mine == { n \in sent : n.call = Len(monitorCalls) }

\* call_monitor was asked for one workflow: no daemon flag, and a workflow id.
AskedSingle == monitorCalls # <<>> /\ ~args.daemon /\ Truthy(args.workflow_id)

\* call_monitor was asked for the workflows of a user or of all users.
AskedMulti == monitorCalls # <<>> /\ (args.daemon \/ ~Truthy(args.workflow_id))

\* The polled workflow answers with statuses only and ends in a terminal one.
StatusesOnly == engine.notReady = 0 /\ engine.final \in TerminalStates

\* The position of the first terminal status in the answers of the engine
FirstTerminalPosition == engine.running + 1

\* C6: single-workflow monitoring of a handle whose status answers first become
\* terminal at position k polls exactly k times, sends exactly one notification
\* at the k-th tick, stops and never polls again; while the status is
\* non-terminal it neither stops nor notifies.
C6_SingleStopsAtFirstTerminal ==
    (AskedSingle /\ ~args.no_notify) =>
        /\ mon.mode = "single"
        /\ mon.target = args.workflow_id
        /\ StatusesOnly =>
              /\ mon.polls <= FirstTerminalPosition
              /\ enginePolls = mon.polls
              /\ (mon.state = "stopped" <=> mon.polls = FirstTerminalPosition)
              /\ (mon.polls < FirstTerminalPosition => (Mine = {} /\ mon.state = "polling"))
              /\ (mon.polls = FirstTerminalPosition =>
                     Mine = {[call |-> Len(monitorCalls), wf |-> args.workflow_id,
                              tick |-> FirstTerminalPosition]})

\* A Monitor that saw Running, Running and a terminal status: stopped after
\* three ticks with one notification.
C6_Witness ==
    /\ AskedSingle
    /\ ~args.no_notify
    /\ StatusesOnly
    /\ engine.running = 2
    /\ mon.state = "stopped"
    /\ mon.polls = 3
    /\ Cardinality(sent) = 1

\* The ticks at which workflow w was notified
NotifiedAt(w) == { n.tick : n \in { m \in sent : m.wf = w } }

\* C7: in multi-workflow and daemon monitoring each workflow is notified at most
\* once in the process: in the first tick whose snapshot shows it terminal, and
\* in no later tick, whatever the later snapshots report.
C7_NotifiedOnceAtFirstTerminal ==
    AskedMulti =>
        /\ mon.mode \in {"daemon", "user"}
        /\ \A w \in Workflows :
              /\ NotifiedAt(w) \subseteq {firstTerminal[w]} \ {0}
              /\ (~args.no_notify /\ firstTerminal[w] # 0) => NotifiedAt(w) = {firstTerminal[w]}
        /\ \A n \in sent : n.wf \in Workflows

\* Two ticks of a daemon: B terminal from the first, A from the second; each
\* was notified in its tick.
C7_Witness ==
    /\ AskedMulti
    /\ args.daemon
    /\ mon.polls = 2
    /\ firstTerminal = [w \in Workflows |-> IF w = "B" THEN 1 ELSE 2]
    /\ sent = { [call |-> 1, wf |-> "B", tick |-> 1], [call |-> 1, wf |-> "A", tick |-> 2] }

\* C8: no_notify changes only the notification send: the Monitor polls as
\* often and stops at the same tick as without it (single-workflow), records the
\* same workflows as handled (multi-workflow), and sends no notification.
C8_NoNotifyOnlySkipsSend ==
    (monitorCalls # <<>> /\ args.no_notify) =>
        /\ sent = {}
        /\ (mon.mode = "single" /\ StatusesOnly) =>
              /\ mon.polls <= FirstTerminalPosition
              /\ (mon.state = "stopped" <=> mon.polls = FirstTerminalPosition)
        /\ (mon.mode \in {"daemon", "user"}) =>
              mon.notified = { w \in Workflows : firstTerminal[w] # 0 }

\* A Monitor built with no_notify that saw Running, Running and a terminal
\* status: stopped after three ticks, nothing sent.
C8_Witness ==
    /\ mon.mode = "single"
    /\ args.no_notify
    /\ StatusesOnly
    /\ engine.running = 2
    /\ mon.state = "stopped"
    /\ mon.polls = 3
    /\ sent = {}

\* C9: when the run flow monitors, every monitor invocation is in
\* single-workflow mode on the workflow id submit returned, never in
\* multi-workflow or daemon mode and never on an id the caller supplied.
C9_RunMonitorsSubmittedWorkflow ==
    cmd = "run" =>
        \A i \in 1..Len(monitorCalls) :
            /\ monitorCalls[i].mode = "single"
            /\ monitorCalls[i].target = result
            /\ monitorCalls[i].target # OldId

----------------------------------------------------------------------------
(* Properties of the labels *)

UserKeys(l) == { l[i][1] : i \in 1..Len(l) }

\* The value of the last token of l whose key is k
LastValue(l, k) ==
    LET j == CHOOSE i \in 1..Len(l) :
                 l[i][1] = k /\ \A m \in (i + 1)..Len(l) : l[m][1] # k
    IN  l[j][2]

----------------------------------------------------------------------------
(* Properties of the order of the run flow *)

\* C11: a malformed --label token makes the run flow fail before submission:
\* no label set is built in its place, no workflow is submitted, nothing is
\* monitored, and the flow ends with the parse error (or, before that, with the
\* exit of a rejected validation).
C11_MalformedLabelStopsBeforeSubmit ==
    (cmd = "run" /\ Malformed(args.label)) =>
        /\ ~labels_dict.built
        /\ submits = <<>>
        /\ monitorCalls = <<>>
        /\ enginePolls = 0
        /\ sent = {}
        /\ pc \in {"main", "validate", "labels", "exit"}
        /\ (pc = "exit" =>
               \/ outcome = "error" /\ error = "MalformedLabelError"
               \/ outcome = "exit1" /\ ValidationRejected)

\* A run with a malformed label that ended with the parse error, nothing submitted.
C11_Witness ==
    /\ cmd = "run"
    /\ Malformed(args.label)
    /\ pc = "exit"
    /\ error = "MalformedLabelError"
    /\ submits = <<>>

\* The steps of call_run up to the first poll, for its arguments
RunSteps ==
    (IF args.validate THEN <<"validate">> ELSE <<>>)
    \o <<"labels", "submit", "links">>
    \o (IF args.monitor THEN <<"sleep", "monitor", "poll">> ELSE <<>>)

\* C12: the run flow validates (if asked), builds the labels, submits, prints
\* the links, and then, only if monitoring was asked for, waits once and polls:
\* the wait comes exactly once, before the first monitor call, and never again;
\* without monitoring there is neither a wait nor a monitor call.
C12_RunStepsInOrder ==
    cmd = "run" =>
        /\ \A i \in 1..Len(events) :
              IF i <= Len(RunSteps) THEN events[i] = RunSteps[i]
              ELSE args.monitor /\ events[i] \in {"monitor", "poll"}
        /\ (pc = "dump" \/ outcome = "exit0") => Len(events) >= Len(RunSteps)

\* A validated, monitored run that ended after two polls.
C12_Witness ==
    /\ cmd = "run"
    /\ outcome = "exit0"
    /\ events = <<"validate", "labels", "submit", "links", "sleep", "monitor", "poll", "poll">>

----------------------------------------------------------------------------
(* Properties of the monitoring modes *)

\* The workflows a list answer shows in a terminal status
TerminalIn(answer) == { w \in Workflows : answer.statuses[w] \in TerminalStates }

\* What a sequence of list answers must lead to, whoever the owner is: one
\* notification per workflow, at the first answer that shows it terminal
NotesOf(snaps) ==
    { [wf |-> w, tick |-> t] : w \in Workflows, t \in 1..Len(snaps) }
    \cap { n \in [wf : Workflows, tick : 1..Len(snaps)] :
             /\ snaps[n.tick].kind = "ok"
             /\ n.wf \in TerminalIn(snaps[n.tick])
             /\ \A u \in 1..(n.tick - 1) : n.wf \notin TerminalIn(snaps[u]) }

C18_CallMonitorNeverRaises ==
    /\ monitorCalls # <<>> => outcome # "error" /\ error = "none"
    /\ Len(monLog) <= Len(monitorCalls)
    /\ cmd = "run" =>
          /\ Len(monitorCalls) <= 1
          /\ monLog # <<>> => retry = 0
          /\ (args.monitor /\ (pc = "dump" \/ outcome = "exit0")) =>
                 Len(monitorCalls) = 1 /\ Len(monLog) = 1

\* A monitored run whose monitoring met a KeyError and that ended normally.
C18_Witness ==
    /\ cmd = "run"
    /\ outcome = "exit0"
    /\ monLog = <<"KeyError">>
    /\ Len(monitorCalls) = 1

\* C19: each call_monitor invocation starts one monitoring, chosen in this
\* order: with the daemon flag, all users (owner "*"), whatever the workflow
\* id; else with a workflow id (anything truthy, the string "None" that email
\* defaults to included), that single workflow; else all workflows of the
\* username.
C19_MonitorModePrecedence ==
    \A i \in 1..Len(monitorCalls) :
        LET c == monitorCalls[i]
        IN  IF args.daemon
            THEN c = [mode |-> "daemon", owner |-> "*", target |-> NoneId]
            ELSE IF args.workflow_id # NoneId
            THEN c = [mode |-> "single", owner |-> args.username,
                      target |-> args.workflow_id]
            ELSE c = [mode |-> "user", owner |-> args.username, target |-> NoneId]

\* email without a workflow id monitors the single workflow called "None".
C19_Witness ==
    /\ cmd = "email"
    /\ monitorCalls = <<[mode |-> "single", owner |-> User, target |-> NoneString]>>
    /\ mon.polls > 0

----------------------------------------------------------------------------
(* Properties of the other subcommands *)

\* The kinds of lines on the console
Whats == { printed[i].what : i \in 1..Len(printed) }

\* C14: when explain does not find the workflow, "Workflow not found." is all
\* that is printed: no status, no additional parameters, no failed-job logs,
\* no links; when it finds it, the not-found message is not printed.
C14_ExplainNotFoundOnlySaysSo ==
    (cmd = "explain" /\ reply.kind = "explain") =>
        IF reply.found
        THEN "not_found" \notin Whats /\ "status" \in Whats
        ELSE printed = <<Line("not_found", NoneId)>>

\* explain of an unknown id that ended normally.
C14_Witness ==
    /\ cmd = "explain"
    /\ reply.kind = "explain"
    /\ ~reply.found
    /\ printed = <<Line("not_found", NoneId)>>
    /\ outcome = "exit0"

\* C15: a script file that is missing or cannot be read is taken as empty and
\* is never fatal: the log command ends normally and reports every call.
C15_MissingScriptTolerated ==
    (cmd = "log" /\ reply.kind = "logs") =>
        /\ outcome # "error"
        /\ \A i \in 1..Len(reply.calls) :
              \E j \in 1..Len(printed) :
                  printed[j] = Line("command", ToString(reply.calls[i]))

\* C16: restart reports success exactly when the response carries an id; the
\* id it reports is the one of the response, which is not the id it was asked
\* to restart; and no monitoring of the original id follows.
C16_RestartReportsNewHandle ==
    (cmd = "restart" /\ reply.kind = "restart") =>
        /\ Len(printed) = 1
        /\ printed[1].what = "restarted" <=> (reply.some /\ reply.has_id)
        /\ printed[1].what = "restarted" =>
              printed[1].id = reply.id /\ printed[1].id # args.workflow_id
        /\ \A i \in 1..Len(monitorCalls) : monitorCalls[i].target # args.workflow_id

\* A restart the engine accepted, reported with the new id.
C16_Witness ==
    /\ cmd = "restart"
    /\ reply.kind = "restart"
    /\ reply.has_id
    /\ printed = <<Line("restarted", NewId)>>
    /\ outcome = "exit0"

C20_QueryModesExclusive ==
    (cmd = "query" /\ pc \in {"dump", "exit"} /\ error = "none") =>
        IF args.workflow_id = NoneString /\ ~args.label.some
        THEN events = <<"list">> /\ returned.kind \in {"list", "none"}
        ELSE IF args.label.some
        THEN events = <<"query_labels">> /\ returned = [kind |-> "labeled", items |-> <<>>]
        ELSE /\ returned.kind = "responses"
             /\ returned.items = SelectSeq(<<"status", "metadata", "logs">>,
                                           LAMBDA f : args[f])
             /\ events = returned.items

\* A query with a label and the status flag, answered by the label query alone.
C20_Witness ==
    /\ cmd = "query"
    /\ pc = "exit"
    /\ error = "none"
    /\ args.status
    /\ args.workflow_id = OldId
    /\ returned = [kind |-> "labeled", items |-> <<>>]

----------------------------------------------------------------------------
(* Properties of main *)

\* C21: main prints the JSON dump of the result exactly when the monitor flag
\* is false once the handler has returned: run without --monitor, abort, label,
\* validate, email, log and a query that is not a successful list are dumped; run
\* with --monitor, monitor, restart, explain and a successful list are not;
\* a subcommand whose namespace has no monitor flag ends without dump and
\* without error.
C21_DumpIffMonitorFlagFalse ==
    /\ dumped => pc = "exit" /\ outcome = "exit0"
    /\ (pc = "exit" /\ outcome = "exit0") =>
          /\ dumped <=> ("monitor" \in DOMAIN args /\ ~args.monitor)
          /\ dumped <=>
                CASE cmd = "run" -> ~args0.monitor
                  [] cmd \in {"abort", "label", "validate", "email", "log"} -> TRUE
                  [] cmd = "query" -> returned.kind # "list"
                  [] cmd \in {"monitor", "restart", "explain"} -> FALSE
                  [] OTHER -> FALSE

\* explain was parsed with the flag false, set it itself, and was not dumped.
C21_Witness ==
    /\ cmd = "explain"
    /\ outcome = "exit0"
    /\ ~args0.monitor
    /\ args.monitor
    /\ ~dumped

----------------------------------------------------------------------------
(* Properties of the list *)

\* The place of x in the sequence q
PositionIn(q, x) == CHOOSE k \in 1..Len(q) : q[k] = x

\* C22: call_list sends no notification (its Monitor is built with no_notify)
\* and, when the answer has results, returns exactly the listed workflows whose
\* status is in the filter (all without a filter), in the engine's order, each
\* with the metadata and timing links of its own id; when the answer has no
\* results it logs the error and returns nothing, without raising.
C22_ListFilteredInOrderWithLinks ==
    (cmd = "query" /\ reply.kind = "list") =>
        /\ sent = {}
        /\ mon.mode = "list" /\ mon.no_notify
        /\ reply.answer.kind = Missing =>
              /\ returned = [kind |-> "none", items |-> <<>>]
              /\ outcome # "error"
              /\ printed = <<Line("list_failed", NoneId)>>
        /\ reply.answer.kind = "ok" =>
              LET items == returned.items
                  status == reply.answer.statuses
                  kept == { w \in Workflows :
                              \/ ~args.filter.some
                              \/ \E i \in 1..Len(args.filter.list) :
                                    args.filter.list[i] = status[w] }
              IN  /\ returned.kind = "list"
                  /\ Len(items) = Cardinality(kept)
                  /\ { items[i].id : i \in 1..Len(items) } = kept
                  /\ \A i, j \in 1..Len(items) :
                        i < j => PositionIn(WorkflowOrder, items[i].id)
                                    < PositionIn(WorkflowOrder, items[j].id)
                  /\ \A i \in 1..Len(items) :
                        /\ items[i].status = status[items[i].id]
                        /\ items[i].metadata =
                              <<args.server, CromwellPort, items[i].id, "metadata">>
                        /\ items[i].timing =
                              <<args.server, CromwellPort, items[i].id, "timing">>

\* A filtered list that kept the second of the two workflows listed.
C22_Witness ==
    /\ cmd = "query"
    /\ reply.kind = "list"
    /\ reply.answer.kind = "ok"
    /\ args.filter.some
    /\ outcome = "exit0"
    /\ Len(returned.items) = 1
    /\ returned.items[1].id = "B"

----------------------------------------------------------------------------
(* Properties of email *)

\* C25: email monitors with notification enabled, verbose off and interval 0:
\* call_email sets no_notify and verbose to false and interval to 0, calls
\* call_monitor once, and leaves every other argument (username, server,
\* workflow id, daemon) as it was parsed.
C25_EmailForcesNotifyQuietZero ==
    (cmd = "email" /\ pc \notin {"main", "call_email"}) =>
        /\ args.no_notify = FALSE
        /\ args.verbose = FALSE
        /\ args.interval = 0
        /\ DOMAIN args = DOMAIN args0 \cup {"no_notify", "verbose", "interval"}
        /\ \A f \in DOMAIN args0 : args[f] = args0[f]
        /\ monitorCalls # <<>> =>
              mon.no_notify = FALSE /\ mon.verbose = FALSE /\ mon.interval = 0
        /\ pc \in {"dump", "exit"} => Len(monitorCalls) = 1

\* An email daemon that notified a workflow and ended.
C25_Witness ==
    /\ cmd = "email"
    /\ pc = "exit"
    /\ args0.daemon
    /\ args.no_notify = FALSE
    /\ sent # {}

----------------------------------------------------------------------------
(* Properties of upload *)

\* C23: call_upload leaves the directory next to the archive as it found it:
\* nothing that existed before the call is overwritten or deleted; when the
\* upload raises, the extracted files are left behind; in every other case
\* the call ends with the directory exactly as it was before.
C23_UploadLeavesDirectoryAsFound ==
    cmd = "upload" =>
        /\ \A m \in Members : disk0.entries[m] = "old" => disk.entries[m] = "old"
        /\ (pc = "exit" /\ error = "UploadError") =>
              \A i \in 1..Len(local.created_files) :
                  disk.entries[local.created_files[i]] = "new"
        /\ (pc = "exit" /\ error # "UploadError") => disk = disk0

----------------------------------------------------------------------------
(* Properties of batch and testapp *)

\* C24: whenever call_batch or call_testapp ends after creating the project
\* directory, normally or because a sample failed, submitted.csv lists exactly
\* the samples that were completely processed, in sample-sheet order, and the
\* error that ends the call is the sample's own; the first sample failing and
\* the empty sheet included.
C24_SubmittedListsProcessedSamples ==
    (cmd \in {"batch", "testapp"} /\ pc \in {"dump", "exit"} /\ local.kind = "sheet") =>
        /\ disk.csv = Given(local.successed_samples)
        /\ \A i \in 1..Len(local.successed_samples) :
              local.successed_samples[i].sample_id = args.samples[i].sample_id
        /\ error = local.raised

----------------------------------------------------------------------------
(* Properties of Scaffold *)

\* The positions of the template files that are not files, and of the
\* template directories that are not directories
MissingFiles == { i \in 1..Len(file_list) : disk.template[file_list[i]] # "file" }
MissingDirs == { i \in 1..Len(dir_list) : disk.template[dir_list[i]] # "dir" }
First(S) == CHOOSE i \in S : \A j \in S : i <= j

\* C26: constructing a Scaffold succeeds only if the four template files and
\* the three template directories exist; otherwise it fails with NoSuchFile
\* for the first missing file, or, all files existing, with NoSuchDirectory
\* for the first missing directory; a failed construction has written nothing
\* to the output directory, and generate runs only on a complete template.
C26_ScaffoldNeedsCompleteTemplate ==
    cmd = "scaffold" =>
        /\ pc \in {"scaffold_generate", "returned"} =>
              MissingFiles = {} /\ MissingDirs = {}
        /\ pc = "exit" =>
              /\ MissingFiles # {} =>
                    error = "NoSuchFile:" \o file_list[First(MissingFiles)]
              /\ MissingFiles = {} =>
                    /\ MissingDirs # {}
                    /\ error = "NoSuchDirectory:" \o dir_list[First(MissingDirs)]
              /\ disk.output = {}
        /\ disk.output # {} => MissingFiles = {} /\ MissingDirs = {}

\* A template without inputs, defaults and test: the construction failed on
\* inputs.
C26_Witness ==
    /\ cmd = "scaffold"
    /\ pc = "exit"
    /\ MissingFiles = {3, 4}
    /\ MissingDirs = {2}
    /\ error = "NoSuchFile:inputs"
    /\ disk.output = {}

====
